---- MODULE Spec2Model ----
(***************************************************************************)
(* Model of multi_tool_agent/agent.py: the module-level construction of    *)
(* the agent records and tool bindings, the runs the constructed           *)
(* configuration admits when started from root_agent, and the workflow     *)
(* the coordinator's instruction text prescribes.                          *)
(*                                                                         *)
(* A Python string that is used as a path or a command line word is        *)
(* modelled as the sequence of its "/"-separated components, so that       *)
(* "/a/b" is <<"", "a", "b">> and "npx" is <<"npx">>; the inputs drawn     *)
(* below hold no "." or ".." components, so normalisation is the identity  *)
(* on them.                                                                *)
(***************************************************************************)
EXTENDS Integers, Sequences, FiniteSets, TLC

VARIABLES
    env,                 \* os.environ of the process that imports the module
    cwd,                 \* os.getcwd() of that process
    file,                \* __file__ of agent.py as the importer names it
    pc,                  \* position in the module body
    target_folder_path,  \* module global TARGET_FOLDER_PATH
    node_path,           \* module global NODE_PATH
    agents,              \* agent objects constructed so far, by agent name
    root_agent,          \* module global root_agent (an agent name)
    loads,               \* finished imports observed so far (history)
    run,                 \* "idle", "active" or "done"
    request,             \* the user request of the run
    control,             \* the agent that holds control
    caller,              \* the agent waiting on an AgentTool invocation
    proc,                \* state of the tool process of each binding
    launches,            \* number of launches of each binding (history)
    actions,             \* actions taken (tool calls issued) since the current task
                         \* began (history); the prescribed workflow counts the
                         \* get_page_source calls apart, in stepPageSources
    delegations,         \* specialists the coordinator transferred to, in order
    results,             \* specialists that returned results to the coordinator
    halted,              \* the specialists stopped awaiting the user; no code sets it,
                         \* the prescribed workflow asks the language model to
    errorKind,           \* the classified error kind held; likewise
    summaryBy,           \* the agent that gave the final summary to the user
    phase,               \* phase of the mobile specialist's task: "none", "planning",
                         \* "execution" or "reporting" (lines 263-265)
    pending,             \* the action whose result is not yet asserted: "none",
                         \* "interact", "scroll", "passed" once it is asserted, or
                         \* "warned" while the user is asked whether to continue
    total_actions,       \* counter A of the status line (line 799): Actions X/20
    element_attempts,    \* counter E: Element attempts Y/5
    page_source_calls,   \* counter P: Page source calls Z/3
    scroll_attempts,     \* counter S: Scroll attempts W/3
    actionsTaken,        \* actions (tap, scroll, navigate, type) the mobile specialist
                         \* took since its task started (history)
    elementAttemptsMade, \* interaction attempts made on the current element (history)
    elementScrollsMade,  \* scroll attempts made for the current element (history)
    stepPageSources,     \* get_page_source calls made in the current task step (history)
    userSaid,            \* what the user told the code specialist during its task:
                         \* "nothing", "confirmed" (the task is complete) or
                         \* "stop" (the explicit request to stop) (line 1134)
    completed            \* the specialists whose latest return reported their work
                         \* complete: the coordinator's completion tracking
                         \* (lines 1469-1474); no code keeps it

loadVars == <<env, cwd, file, pc, target_folder_path, node_path, agents, root_agent>>
counters == <<total_actions, element_attempts, page_source_calls, scroll_attempts>>
mobileVars == <<phase, pending, total_actions, element_attempts, page_source_calls,
                scroll_attempts, actionsTaken, elementAttemptsMade, elementScrollsMade,
                stepPageSources>>
runVars == <<run, request, control, caller, proc, launches, actions,
             delegations, results, halted, errorKind, summaryBy,
             phase, pending, total_actions, element_attempts, page_source_calls,
             scroll_attempts, actionsTaken, elementAttemptsMade, elementScrollsMade,
             stepPageSources, userSaid, completed>>
vars == <<env, cwd, file, pc, target_folder_path, node_path, agents, root_agent,
          loads, run, request, control, caller, proc, launches, actions,
          delegations, results, halted, errorKind, summaryBy,
          phase, pending, total_actions, element_attempts, page_source_calls,
          scroll_attempts, actionsTaken, elementAttemptsMade, elementScrollsMade,
          stepPageSources, userSaid, completed>>

----------------------------------------------------------------------------
(* Bounds of the model.                                                    *)

MaxActions == 22      \* tool calls the longest task of Requests takes
ShortTask == 2        \* tool calls the other tasks of Requests take
MidTask == 7          \* tool calls the mobile task on a failing application takes
MaxExtraDelegations == 0  \* transfers of a run beyond one per requested part and the discovery
MaxRedelegations == 1     \* times the coordinator hands additional work out in one request
MaxFailures == 1      \* tool-process failures injected in one run
MaxLoads == 2         \* imports of the module observed side by side

----------------------------------------------------------------------------
(* os.path on component sequences.                                         *)

IsAbs(p) == Len(p) > 0 /\ p[1] = ""

\* os.path.join(a, b): b replaces a when b is absolute.
Join(a, b) == IF IsAbs(b) THEN b ELSE a \o b

\* os.path.dirname(p): the path without its last component; the root is
\* its own directory (dirname('/') = '/', dirname('/agent.py') = '/').
Dirname(p) ==
    IF Len(p) = 0 \/ p = <<"">> THEN p ELSE SubSeq(p, 1, Len(p) - 1)

\* os.path.abspath(p): join with the working directory when p is relative.
Abspath(d, p) == IF IsAbs(p) THEN p ELSE Join(d, p)

\* line 8
TargetFolderPath(d, f) == Join(Dirname(Dirname(Abspath(d, f))), <<"mcp-servers">>)

\* Faulty variant of line 9: reads the interpreter path from the environment.
NODE_PATH_FromEnv == env["NODE_PATH"]

NODE_PATH == <<"", "Users", "sariputray", ".nvm", "versions", "node", "v18.20.8", "bin", "node">>

----------------------------------------------------------------------------
(* Constructors of the agent framework, as records of their arguments.     *)

\* Faulty variant: puts the NETWORK_CONFIG timeout of lines 12-16 into effect.
StdioServerParameters_WithTimeout(command, args) ==
    [command |-> command, args |-> args, timeout |-> 600, max_retries |-> 3, retry_delay |-> 2]

StdioServerParameters(command, args) == [command |-> command, args |-> args]

MCPToolset(connection_params) == [connection_params |-> connection_params, kind |-> "MCPToolset"]

AgentTool(agent) == [kind |-> "AgentTool", agent |-> agent]

LlmAgent(name, tools, sub_agents) ==
    [kind |-> "LlmAgent", name |-> name, tools |-> tools, sub_agents |-> sub_agents,
     model |-> "gemini-2.5-flash-preview-05-20"]

ServerScript(tfp, script) == Join(tfp, <<script>>)

----------------------------------------------------------------------------
(* The agent definitions of the module, in source order.  tfp and np are   *)
(* the values of TARGET_FOLDER_PATH and NODE_PATH at that point.           *)

\* Faulty variant: launches Playwright as a server script like the other bindings.
web_automation_agent_NodeScript(tfp, np) ==
    LlmAgent("web_automation_specialist",
             <<MCPToolset(StdioServerParameters(np, <<ServerScript(tfp, "mcp-playwright-server.js")>>))>>,
             <<>>)

web_automation_agent(tfp, np) ==
    LlmAgent("web_automation_specialist",
             <<MCPToolset(StdioServerParameters(<<"npx">>, <<<<"-y">>, <<"@playwright", "mcp@latest">>>>))>>,
             <<>>)

mobile_automation_planner(tfp, np) ==
    LlmAgent("mobile_automation_planner",
             <<MCPToolset(StdioServerParameters(np, <<ServerScript(tfp, "mcp-agent-mobile-planner.js")>>)),
               MCPToolset(StdioServerParameters(np, <<ServerScript(tfp, "mcp-mobile-planning-server.js")>>))>>,
             <<>>)

\* Faulty variant: leaves the specialist with the planner tool only.
mobile_automation_agent_PlannerOnly(tfp, np) ==
    LlmAgent("mobile_automation_specialist",
             <<AgentTool("mobile_automation_planner")>>,
             <<>>)

mobile_automation_agent(tfp, np) ==
    LlmAgent("mobile_automation_specialist",
             <<AgentTool("mobile_automation_planner"),
               MCPToolset(StdioServerParameters(np, <<ServerScript(tfp, "mcp-appium-server-new.js")>>))>>,
             <<>>)

code_management_agent(tfp, np) ==
    LlmAgent("code_management_specialist",
             <<MCPToolset(StdioServerParameters(np, <<ServerScript(tfp, "mcp-code-analysis-server.js")>>)),
               MCPToolset(StdioServerParameters(np, <<ServerScript(tfp, "mcp-code-modification-server.js")>>))>>,
             <<>>)

file_operations_agent(tfp, np) ==
    LlmAgent("file_operations_specialist",
             <<MCPToolset(StdioServerParameters(np, <<ServerScript(tfp, "mcp-filesystem-server.js")>>))>>,
             <<>>)

advanced_tools_agent(tfp, np) ==
    LlmAgent("advanced_tools_specialist",
             <<MCPToolset(StdioServerParameters(np, <<ServerScript(tfp, "mcp-advanced-server.js")>>))>>,
             <<>>)

\* Faulty variant: drops one specialist from the delegation targets.
coordinator_sub_agents_Four ==
    <<"web_automation_specialist", "mobile_automation_specialist",
      "code_management_specialist", "file_operations_specialist">>

\* lines 1519-1525
coordinator_sub_agents ==
    <<"web_automation_specialist", "mobile_automation_specialist",
      "code_management_specialist", "file_operations_specialist",
      "advanced_tools_specialist">>

\* Faulty variant: gives the coordinator a tool binding of its own.
coordinator_agent_WithTools ==
    LlmAgent("automation_coordinator",
             <<MCPToolset(StdioServerParameters(NODE_PATH,
                 << <<"", "mcp-servers", "mcp-advanced-server.js">> >>))>>,
             coordinator_sub_agents)

\* lines 1383-1526: no tools argument, five sub_agents
coordinator_agent == LlmAgent("automation_coordinator", <<>>, coordinator_sub_agents)

\* Faulty variant: takes the alternative of line 1563: a sequential pipeline as root.
RootAgentName_Pipeline == "comprehensive_testing_pipeline"

\* line 1560: root_agent = coordinator_agent
RootAgentName == coordinator_agent.name

----------------------------------------------------------------------------
(* Inputs: the process environments, working directories and module file   *)
(* names the import is observed under, and the user requests of a run.     *)

Envs ==
    { [NODE_PATH |-> <<"", "usr", "local", "bin", "node">>, HOME |-> <<"", "home", "dev">>],
      [NODE_PATH |-> <<"", "opt", "node", "bin", "node">>, HOME |-> <<"", "root">>] }

Cwds == { <<"", "opt", "app">>, <<"", "home", "dev">>, <<"">> }

Files ==
    { <<"", "opt", "app", "multi_tool_agent", "agent.py">>,
      <<"", "srv", "adk", "multi_tool_agent", "agent.py">>,
      <<"multi_tool_agent", "agent.py">>,
      <<"", "agent.py">>,
      <<"agent.py">> }

RunEnvs == { [NODE_PATH |-> <<"", "usr", "local", "bin", "node">>, HOME |-> <<"", "home", "dev">>] }

RunCwds == { <<"", "opt", "app">> }

RunFiles == { <<"multi_tool_agent", "agent.py">> }

Coordinator == "automation_coordinator"

Planner == "mobile_automation_planner"

Web == "web_automation_specialist"

Mobile == "mobile_automation_specialist"

Code == "code_management_specialist"

FileOps == "file_operations_specialist"

Advanced == "advanced_tools_specialist"

\* The requests of lines 1476-1482: scenario is TRUE when the request mentions
\* a test tag, a test folder or a scenario keyword (lines 1501-1506); parts
\* are the specialists whose work the request asks for.
\* work bounds the tool calls one task of the request takes.
\* flaky is TRUE when the application under test may show errors and let an
\* action miss its expected result (lines 834-863).
Requests ==
    { [scenario |-> FALSE, parts |-> {Web}, work |-> ShortTask, flaky |-> FALSE],
      [scenario |-> TRUE, parts |-> {Mobile}, work |-> ShortTask, flaky |-> TRUE],
      [scenario |-> TRUE, parts |-> {FileOps}, work |-> ShortTask, flaky |-> FALSE],
      [scenario |-> FALSE, parts |-> {Code, Advanced}, work |-> ShortTask, flaky |-> FALSE],
      [scenario |-> FALSE, parts |-> {Mobile}, work |-> MaxActions, flaky |-> FALSE] }

\* The requests the coordinator's workflow is followed on: the short tasks.
WorkflowRequests == { r \in Requests : r.work <= ShortTask }

\* The testing requests the mobile specialist's task is followed on at
\* length: the long task, and a task on an application that shows errors.
MobileRequests ==
    { [scenario |-> FALSE, parts |-> {Mobile}, work |-> MaxActions, flaky |-> FALSE],
      [scenario |-> FALSE, parts |-> {Mobile}, work |-> MidTask, flaky |-> TRUE] }

\* The transfers explored for a request: one per part, one for the scenario
\* discovery, and extra ones of additional work.
DelegationBudget(r, extra) ==
    Cardinality(r.parts) + (IF r.scenario THEN 1 ELSE 0) + extra

NoRequest == [scenario |-> FALSE, parts |-> {}, work |-> 0, flaky |-> FALSE]

EmptyMap == [b \in {} |-> 0]

----------------------------------------------------------------------------
(* Initial state: a process about to import the module.                    *)

InitOver(E, C, F) ==
    /\ env \in E
    /\ cwd \in C
    /\ file \in F
    /\ pc = "paths"
    /\ target_folder_path = <<>>
    /\ node_path = <<>>
    /\ agents = EmptyMap
    /\ root_agent = "undefined"
    /\ loads = {}
    /\ run = "idle"
    /\ request = NoRequest
    /\ control = "none"
    /\ caller = "none"
    /\ proc = EmptyMap
    /\ launches = EmptyMap
    /\ actions = 0
    /\ delegations = <<>>
    /\ results = <<>>
    /\ halted = {}
    /\ errorKind = "none"
    /\ summaryBy = "none"
    /\ phase = "none"
    /\ pending = "none"
    /\ total_actions = 0
    /\ element_attempts = 0
    /\ page_source_calls = 0
    /\ scroll_attempts = 0
    /\ actionsTaken = 0
    /\ elementAttemptsMade = 0
    /\ elementScrollsMade = 0
    /\ stepPageSources = 0
    /\ userSaid = "nothing"
    /\ completed = {}

Init == InitOver(RunEnvs, RunCwds, RunFiles)

InitLoad == InitOver(Envs, Cwds, Files)

----------------------------------------------------------------------------
(* The module body, one action per top-level statement.                    *)

Define(a) == agents' = [n \in DOMAIN agents \cup {a.name} |-> IF n = a.name THEN a ELSE agents[n]]

\* lines 7-9
LoadPaths ==
    /\ pc = "paths"
    /\ target_folder_path' = TargetFolderPath(cwd, file)
    /\ node_path' = NODE_PATH
    /\ pc' = "web"
    /\ UNCHANGED <<env, cwd, file, agents, root_agent, loads>>
    /\ UNCHANGED runVars

DefineAgent(at, a, next) ==
    /\ pc = at
    /\ Define(a)
    /\ pc' = next
    /\ UNCHANGED <<env, cwd, file, target_folder_path, node_path, root_agent, loads>>
    /\ UNCHANGED runVars

\* lines 22-59
DefineWeb == DefineAgent("web", web_automation_agent(target_folder_path, node_path), "planner")

\* lines 62-253
DefinePlanner == DefineAgent("planner", mobile_automation_planner(target_folder_path, node_path), "mobile")

\* lines 256-1113
DefineMobile == DefineAgent("mobile", mobile_automation_agent(target_folder_path, node_path), "code")

\* lines 1118-1160
DefineCode == DefineAgent("code", code_management_agent(target_folder_path, node_path), "file")

\* lines 1163-1301
DefineFileOps == DefineAgent("file", file_operations_agent(target_folder_path, node_path), "advanced")

\* lines 1344-1379
DefineAdvanced == DefineAgent("advanced", advanced_tools_agent(target_folder_path, node_path), "coordinator")

\* lines 1383-1526
DefineCoordinator == DefineAgent("coordinator", coordinator_agent, "root")

\* The configuration an import leaves behind.
Snapshot == [env |-> env, agents |-> agents, root_agent |-> RootAgentName,
             location |-> Abspath(cwd, file)]

\* line 1560
AssignRoot ==
    /\ pc = "root"
    /\ root_agent' = RootAgentName
    /\ pc' = "loaded"
    /\ loads' = loads \cup {Snapshot}
    /\ UNCHANGED <<env, cwd, file, target_folder_path, node_path, agents>>
    /\ UNCHANGED runVars

\* Another process imports the module, under any environment, working
\* directory and file name; the finished imports stay on record in loads.
Reload ==
    /\ pc = "loaded"
    /\ run = "idle"
    /\ Cardinality(loads) < MaxLoads
    /\ env' \in Envs
    /\ cwd' \in Cwds
    /\ file' \in Files
    /\ pc' = "paths"
    /\ target_folder_path' = <<>>
    /\ node_path' = <<>>
    /\ agents' = EmptyMap
    /\ root_agent' = "undefined"
    /\ UNCHANGED loads
    /\ UNCHANGED runVars

LoadStep ==
    \/ LoadPaths
    \/ DefineWeb
    \/ DefinePlanner
    \/ DefineMobile
    \/ DefineCode
    \/ DefineFileOps
    \/ DefineAdvanced
    \/ DefineCoordinator
    \/ AssignRoot

NextLoad == LoadStep \/ Reload

SpecLoad == InitLoad /\ [][NextLoad]_vars

----------------------------------------------------------------------------
(* What the constructed configuration wires together.                      *)

Range(q) == { q[i] : i \in 1..Len(q) }

Loaded == pc = "loaded"

SubAgentsOf(a) == IF a \in DOMAIN agents THEN Range(agents[a].sub_agents) ELSE {}

\* The agents an agent holds as AgentTool tools.
AgentToolsOf(a) ==
    IF a \in DOMAIN agents
    THEN { agents[a].tools[i].agent :
             i \in { j \in 1..Len(agents[a].tools) : agents[a].tools[j].kind = "AgentTool" } }
    ELSE {}

\* The tool bindings of an agent: <<agent name, position in its tools list>>.
BindingsOf(a) ==
    IF a \in DOMAIN agents
    THEN { <<a, i>> : i \in { j \in 1..Len(agents[a].tools) : agents[a].tools[j].kind = "MCPToolset" } }
    ELSE {}

\* The agents that hold some agent as an AgentTool.
AgentToolsHolders == { a \in DOMAIN agents : AgentToolsOf(a) # {} }

AllBindings == UNION { BindingsOf(a) : a \in DOMAIN agents }

ParamsOf(b) == agents[b[1]].tools[b[2]].connection_params

ProcState(b) == IF b \in DOMAIN proc THEN proc[b] ELSE "unlaunched"

Failures == Cardinality({ b \in DOMAIN proc : proc[b] = "failed" })

----------------------------------------------------------------------------
(* The limits the mobile specialist's instruction text names.              *)

\* line 523: Max 20 total actions per task
ACTION_LIMIT == 20

\* line 521: Max 5 attempts per element interaction
ELEMENT_ATTEMPT_LIMIT == 5

\* line 520: Max 3 get_page_source calls per task step
PAGE_SOURCE_LIMIT == 3

\* line 524: Max 3 scroll attempts per element
SCROLL_LIMIT == 3

----------------------------------------------------------------------------
(* What the repository's code puts around a tool process: nothing.  Each   *)
(* definition below states the code's (absent) policy; the variant before  *)
(* it states the policy the commented-out or prose-only text would give.   *)

\* Faulty variant: re-launches a failed process up to max_retries = 3 times.
MayLaunch_Retry(b) ==
    \/ ProcState(b) = "unlaunched"
    \/ ProcState(b) = "failed" /\ launches[b] <= 3

\* A binding is launched once: no retry count is attached to it (lines 1106-1111).
MayLaunch(b) == ProcState(b) = "unlaunched"

\* Faulty variant: classifies the failure as the instruction text words it.
ErrorKindOnFailure_Classified(kind) == "critical"

\* No handler surrounds a tool binding: a failure leaves the error kind untouched.
ErrorKindOnFailure(kind) == kind

\* Faulty variant: enforces the action limit of line 522.
MayCall_Limited(n) == n < ACTION_LIMIT

\* No guard of the code reads a count of actions.
MayCall(n) == TRUE

----------------------------------------------------------------------------
(* A run started from root_agent, as the configuration admits it.  The     *)
(* choices of the language model are nondeterministic.                     *)

\* A user request starts a run: root_agent takes control.
UserRequest(r) ==
    /\ Loaded
    /\ run = "idle"
    /\ run' = "active"
    /\ request' = r
    /\ control' = root_agent
    /\ UNCHANGED <<caller, proc, launches, actions, delegations, results,
                   halted, errorKind, summaryBy>>
    /\ UNCHANGED <<env, cwd, file, pc, target_folder_path, node_path, agents, root_agent, loads>>
    /\ UNCHANGED <<userSaid, completed>>
    /\ UNCHANGED mobileVars

\* The agent in control transfers control to one of its sub_agents.
TransferControl(s) ==
    /\ run = "active"
    /\ caller = "none"
    /\ s \in SubAgentsOf(control)
    /\ control' = s
    /\ delegations' = Append(delegations, s)
    /\ actions' = 0
    /\ UNCHANGED <<run, request, caller, proc, launches, results,
                   halted, errorKind, summaryBy>>
    /\ UNCHANGED <<env, cwd, file, pc, target_folder_path, node_path, agents, root_agent, loads>>
    /\ UNCHANGED <<userSaid, completed>>

\* A transfer as the code admits it: nothing of the code keeps a phase or a counter.
Transfer(s) ==
    /\ Len(delegations) < DelegationBudget(request, MaxExtraDelegations)
    /\ TransferControl(s)
    /\ UNCHANGED mobileVars

\* A sub-agent hands control, with its results, back to its parent.
ReturnControl(s) ==
    /\ run = "active"
    /\ caller = "none"
    /\ control = s
    /\ s \in SubAgentsOf(root_agent)
    /\ control' = root_agent
    /\ results' = Append(results, s)
    /\ actions' = 0
    /\ UNCHANGED <<run, request, caller, proc, launches, delegations,
                   halted, errorKind, summaryBy>>
    /\ UNCHANGED <<env, cwd, file, pc, target_folder_path, node_path, agents, root_agent, loads>>

\* A return as the code admits it.
Return(s) ==
    /\ ReturnControl(s)
    /\ UNCHANGED mobileVars
    /\ UNCHANGED <<userSaid, completed>>

\* The agent in control invokes an agent it holds as an AgentTool.
InvokeAgentTool(t) ==
    /\ run = "active"
    /\ caller = "none"
    /\ t \in AgentToolsOf(control)
    /\ actions < request.work
    /\ MayCall(actions)
    /\ caller' = control
    /\ control' = t
    /\ actions' = actions + 1
    /\ UNCHANGED <<run, request, proc, launches, delegations, results,
                   halted, errorKind, summaryBy>>
    /\ UNCHANGED <<env, cwd, file, pc, target_folder_path, node_path, agents, root_agent, loads>>
    /\ UNCHANGED <<userSaid, completed>>
    /\ UNCHANGED mobileVars

\* The agent invoked as a tool answers its caller.
AgentToolAnswer ==
    /\ run = "active"
    /\ caller # "none"
    /\ control' = caller
    /\ caller' = "none"
    /\ UNCHANGED <<run, request, proc, launches, actions, delegations, results,
                   halted, errorKind, summaryBy>>
    /\ UNCHANGED <<env, cwd, file, pc, target_folder_path, node_path, agents, root_agent, loads>>
    /\ UNCHANGED <<userSaid, completed>>

\* The answer as the code admits it.
AgentToolReturn ==
    /\ AgentToolAnswer
    /\ UNCHANGED mobileVars

\* The tool process of a binding of the agent in control is launched with
\* the binding's command and arguments; the launch succeeds or fails.
LaunchTool(b, ok) ==
    /\ run = "active"
    /\ b \in BindingsOf(control)
    /\ MayLaunch(b)
    /\ ok \/ Failures < MaxFailures
    /\ proc' = [x \in DOMAIN proc \cup {b} |->
                  IF x = b THEN (IF ok THEN "running" ELSE "failed") ELSE proc[x]]
    /\ launches' = [x \in DOMAIN launches \cup {b} |->
                  IF x = b THEN (IF b \in DOMAIN launches THEN launches[b] + 1 ELSE 1)
                  ELSE launches[x]]
    /\ errorKind' = IF ok THEN errorKind ELSE ErrorKindOnFailure(errorKind)
    /\ UNCHANGED <<run, request, control, caller, actions, delegations, results,
                   halted, summaryBy>>
    /\ UNCHANGED <<env, cwd, file, pc, target_folder_path, node_path, agents, root_agent, loads>>
    /\ UNCHANGED <<userSaid, completed>>
    /\ UNCHANGED mobileVars

\* The agent in control calls a tool of one of its running tool processes.
ToolCall(b) ==
    /\ run = "active"
    /\ b \in BindingsOf(control)
    /\ ProcState(b) = "running"
    /\ actions < request.work
    /\ MayCall(actions)
    /\ actions' = actions + 1
    /\ UNCHANGED <<run, request, control, caller, proc, launches, delegations, results,
                   halted, errorKind, summaryBy>>
    /\ UNCHANGED <<env, cwd, file, pc, target_folder_path, node_path, agents, root_agent, loads>>
    /\ UNCHANGED <<userSaid, completed>>

\* A tool call as the code admits it.
CallTool(b) ==
    /\ ToolCall(b)
    /\ UNCHANGED mobileVars

\* A running tool process fails: it crashes, or a call to it fails.  The
\* process outlives the turn of the agent it was launched for, and nothing
\* of the module stops or shields it: it can fail whoever holds control,
\* and after the run has ended.
ToolFail(b) ==
    /\ ProcState(b) = "running"
    /\ Failures < MaxFailures
    /\ proc' = [proc EXCEPT ![b] = "failed"]
    /\ errorKind' = ErrorKindOnFailure(errorKind)
    /\ UNCHANGED <<run, request, control, caller, launches, actions, delegations,
                   results, halted, summaryBy>>
    /\ UNCHANGED <<env, cwd, file, pc, target_folder_path, node_path, agents, root_agent, loads>>
    /\ UNCHANGED <<userSaid, completed>>
    /\ UNCHANGED mobileVars

\* The agent in control gives the final answer of the run to the user.
Respond ==
    /\ run = "active"
    /\ caller = "none"
    /\ control \in DOMAIN agents
    /\ run' = "done"
    /\ summaryBy' = control
    /\ control' = "none"
    /\ UNCHANGED <<request, caller, proc, launches, actions, delegations,
                   results, halted, errorKind>>
    /\ UNCHANGED <<env, cwd, file, pc, target_folder_path, node_path, agents, root_agent, loads>>
    /\ UNCHANGED <<userSaid, completed>>
    /\ UNCHANGED mobileVars

RunStep ==
    \/ \E r \in Requests : UserRequest(r)
    \/ \E s \in DOMAIN agents : Transfer(s)
    \/ \E s \in DOMAIN agents : Return(s)
    \/ \E t \in DOMAIN agents : InvokeAgentTool(t)
    \/ AgentToolReturn
    \/ \E b \in AllBindings : \E ok \in BOOLEAN : LaunchTool(b, ok)
    \/ \E b \in AllBindings : CallTool(b)
    \/ \E b \in AllBindings : ToolFail(b)
    \/ Respond

Next == LoadStep \/ RunStep

Spec == Init /\ [][Next]_vars

----------------------------------------------------------------------------
(* The workflow the instruction texts prescribe: the same steps, taken the *)
(* way the coordinator's and the specialists' instructions word them.      *)
(* halted and errorKind are here what the language model is asked to       *)
(* track conversationally.                                                 *)

LastResult == IF Len(results) = 0 THEN "none" ELSE results[Len(results)]

\* The specialists a request needs: its parts, and the file operations
\* specialist for the scenario discovery (lines 1404-1412).
Needed(r) == r.parts \cup (IF r.scenario THEN {FileOps} ELSE {})

\* Faulty variant: lets the coordinator pick any needed specialist first.
PrescribedTarget_AnyOrder(r, dels, s) == s \in Needed(r)

\* lines 1462 and 1508: tag and scenario requests always start with
\* file_operations_specialist; lines 1463-1464: then the suited specialists.
PrescribedTarget(r, dels, s) ==
    /\ s \in Needed(r)
    /\ (r.scenario /\ dels = <<>>) => s = FileOps

\* Faulty variant: lets whoever holds control give the final summary.
FinalSummaryBy_Anyone(a) == TRUE

\* lines 1445-1446: the specialist returns results, the coordinator
\* provides the final summary to the user.
FinalSummaryBy(a) == a = Coordinator

\* Faulty variant: takes a specialist's return for the completion of its work.
AllPartsComplete_Returned == request.parts \subseteq Range(results)

\* lines 1466, 1470 and 1474: conclude only when all requested work is
\* complete: every requested specialist, and every specialist delegated
\* to, reported its work complete at its latest return.
AllPartsComplete == (request.parts \cup Range(delegations)) \subseteq completed

\* line 577: a new task starts in the planning phase with fresh counters.
StartTask ==
    /\ phase' = "planning"
    /\ pending' = "none"
    /\ total_actions' = 0
    /\ element_attempts' = 0
    /\ page_source_calls' = 0
    /\ scroll_attempts' = 0
    /\ actionsTaken' = 0
    /\ elementAttemptsMade' = 0
    /\ elementScrollsMade' = 0
    /\ stepPageSources' = 0

\* lines 528 and 575: when the full task completes ALL counters are reset.
EndTask ==
    /\ phase' = "reporting"
    /\ pending' = "none"
    /\ total_actions' = 0
    /\ element_attempts' = 0
    /\ page_source_calls' = 0
    /\ scroll_attempts' = 0
    /\ actionsTaken' = 0
    /\ elementAttemptsMade' = 0
    /\ elementScrollsMade' = 0
    /\ stepPageSources' = 0

\* lines 1464 and 1487; lines 1465 and 1489: additional work is coordinated
\* where it is needed, with a specialist whose work is not yet complete.
WDelegate(s) ==
    /\ control = Coordinator
    /\ PrescribedTarget(request, delegations, s)
    /\ s \notin completed
    /\ Len(delegations) < DelegationBudget(request, MaxRedelegations)
    /\ TransferControl(s)
    /\ IF s = Mobile THEN StartTask ELSE UNCHANGED mobileVars

\* Faulty variant: lets a specialist that stopped on a critical error go on.
AutomationMayContinue_Always(a) == TRUE

\* lines 760 and 772: no automation continues once a critical error is detected.
AutomationMayContinue(a) == a \notin halted

\* line 1134: the code specialist stops only when the user confirms that
\* its task is complete or explicitly asks it to stop; the instructions of
\* the other specialists set no such condition.
MayStop(s, said) == s = Code => said \in {"confirmed", "stop"}

\* lines 347 and 1130, 1272, 1360: the work of the task in hand is complete
\* when every tool call it takes was made; a specialist that returns earlier
\* reports PARTIAL or FAILED.
TaskComplete == actions >= request.work

\* lines 341 and 353-358: when the work is complete the specialist hands
\* its results back; lines 817-819: a halted specialist does not.  The
\* mobile specialist returns from its reporting phase (line 265).
WReturn(s) ==
    /\ s \notin halted
    /\ MayStop(s, userSaid)
    /\ ReturnControl(s)
    /\ userSaid' = "nothing"
    /\ completed' = IF TaskComplete THEN completed \cup {s} ELSE completed \ {s}
    /\ IF s = Mobile
       THEN /\ phase = "reporting"
            /\ phase' = "none"
            /\ UNCHANGED <<pending, total_actions, element_attempts, page_source_calls,
                           scroll_attempts, actionsTaken, elementAttemptsMade,
                           elementScrollsMade, stepPageSources>>
       ELSE UNCHANGED mobileVars

\* lines 292-297 and 389-392: a new testing request starts with the planner tool.
WInvokeAgentTool(t) ==
    /\ AutomationMayContinue(control)
    /\ control = Mobile => phase = "planning"
    /\ InvokeAgentTool(t)

\* lines 296-297 and 391-392: the planner returns the complete plan, and only
\* then the execution phase begins.
WAgentToolReturn ==
    /\ AgentToolAnswer
    /\ phase' = IF caller = Mobile THEN "execution" ELSE phase
    /\ UNCHANGED <<pending, total_actions, element_attempts, page_source_calls,
                   scroll_attempts, actionsTaken, elementAttemptsMade, elementScrollsMade,
                   stepPageSources>>

\* The tool calls of the specialists other than the mobile specialist, whose
\* instruction texts prescribe no phase and no counter.
WCallTool(b) ==
    /\ AutomationMayContinue(control)
    /\ control # Mobile
    /\ CallTool(b)

\* Faulty variant: lets the execution start before the plan is received.
MayExecute_Unplanned(ph) == ph \in {"planning", "execution"}

\* lines 297 and 372: execution only after receiving the complete plan.
MayExecute(ph) == ph = "execution"

\* Faulty variant: lets an action follow an action whose result was not asserted.
MayAct_Unasserted(p) == TRUE

\* lines 759-761, 831 and 868: an error assertion follows EVERY action, and
\* each action is verified before proceeding to the next.
MayAct(p) == p = "none"

\* The mobile specialist, in its execution phase, uses the running Appium
\* tool process of its binding b (lines 1106-1111).
MobileExecutes(b) ==
    /\ run = "active"
    /\ control = Mobile
    /\ caller = "none"
    /\ MayExecute(phase)
    /\ AutomationMayContinue(Mobile)
    /\ b \in BindingsOf(Mobile)
    /\ ProcState(b) = "running"

\* A get_page_source call: a read of the state, which is no action
\* (lines 759 and 957) and changes nothing of the run.
GetPageSource(b) ==
    /\ MobileExecutes(b)
    /\ stepPageSources' = stepPageSources + 1
    /\ UNCHANGED <<run, request, control, caller, proc, launches, actions, delegations,
                   results, summaryBy>>
    /\ UNCHANGED <<env, cwd, file, pc, target_folder_path, node_path, agents, root_agent, loads>>
    /\ UNCHANGED <<userSaid, completed>>

\* lines 595-603 and 613-617: state and overlay analysis by get_page_source,
\* at most 3 calls per task step; no error is found.
AnalyzeState(b) ==
    /\ pending = "none"
    /\ page_source_calls < PAGE_SOURCE_LIMIT
    /\ GetPageSource(b)
    /\ page_source_calls' = page_source_calls + 1
    /\ UNCHANGED <<halted, errorKind, phase, pending, total_actions, element_attempts,
                   scroll_attempts, actionsTaken, elementAttemptsMade, elementScrollsMade>>

\* lines 650-654 and 629: an interaction attempt on the target element
\* (smart_find_and_click, type_text, tap_coordinates, an overlay dismissal),
\* within the limits of lines 521 and 523.
Interact(b) ==
    /\ MobileExecutes(b)
    /\ MayAct(pending)
    /\ total_actions < ACTION_LIMIT
    /\ element_attempts < ELEMENT_ATTEMPT_LIMIT
    /\ ToolCall(b)
    /\ total_actions' = total_actions + 1
    /\ element_attempts' = element_attempts + 1
    /\ actionsTaken' = actionsTaken + 1
    /\ elementAttemptsMade' = elementAttemptsMade + 1
    /\ pending' = "interact"
    /\ UNCHANGED <<phase, page_source_calls, scroll_attempts, elementScrollsMade, stepPageSources>>

\* lines 655 and 683-687: a scroll attempt for the target element
\* (scroll_to_element, swipe), within the limits of lines 523 and 524.
ScrollToElement(b) ==
    /\ MobileExecutes(b)
    /\ MayAct(pending)
    /\ total_actions < ACTION_LIMIT
    /\ scroll_attempts < SCROLL_LIMIT
    /\ ToolCall(b)
    /\ total_actions' = total_actions + 1
    /\ scroll_attempts' = scroll_attempts + 1
    /\ actionsTaken' = actionsTaken + 1
    /\ elementScrollsMade' = elementScrollsMade + 1
    /\ pending' = "scroll"
    /\ UNCHANGED <<phase, page_source_calls, element_attempts, elementAttemptsMade, stepPageSources>>

\* lines 865-870 and 645: the error assertion after an action, a
\* get_page_source call that counts against no limit (line 957).  On PASS
\* after an interaction the element interaction succeeded (line 573); on
\* FAIL the element and scroll counters of the element are reset (line 958);
\* on WARNING the counters stay as they are (line 960).
AssertResult(b, result) ==
    /\ pending \in {"interact", "scroll"}
    /\ result # "pass" => request.flaky
    /\ GetPageSource(b)
    /\ pending' = CASE result = "warning" -> "warned"
                     [] result = "pass" /\ pending = "interact" -> "passed"
                     [] OTHER -> "none"
    /\ element_attempts' =
          IF result = "fail" \/ (result = "pass" /\ pending = "interact")
          THEN 0 ELSE element_attempts
    /\ scroll_attempts' =
          IF result = "fail" \/ (result = "pass" /\ pending = "interact")
          THEN 0 ELSE scroll_attempts
    /\ UNCHANGED <<halted, errorKind, phase, total_actions, page_source_calls,
                   actionsTaken, elementAttemptsMade, elementScrollsMade>>

\* lines 865-868, 883-889 and 897-904: a get_page_source call of the mobile
\* specialist, made for the state analysis or for the assertion after an
\* action, returns a page source that shows a critical error; the automation
\* stops until the user intervenes.
DetectCriticalError(b) ==
    /\ request.flaky
    /\ pending \in {"none", "interact", "scroll"}
    /\ pending = "none" => page_source_calls < PAGE_SOURCE_LIMIT
    /\ GetPageSource(b)
    /\ page_source_calls' = IF pending = "none" THEN page_source_calls + 1 ELSE page_source_calls
    /\ pending' = "none"
    /\ errorKind' = "critical"
    /\ halted' = halted \cup {Mobile}
    /\ UNCHANGED <<phase, total_actions, element_attempts, scroll_attempts,
                   actionsTaken, elementAttemptsMade, elementScrollsMade>>

\* lines 817-819: the user does what is needed for the automation to continue.
UserIntervention ==
    /\ run = "active"
    /\ Mobile \in halted
    /\ errorKind' = "none"
    /\ halted' = halted \ {Mobile}
    /\ UNCHANGED <<run, request, control, caller, proc, launches, actions, delegations,
                   results, summaryBy>>
    /\ UNCHANGED <<env, cwd, file, pc, target_folder_path, node_path, agents, root_agent, loads>>
    /\ UNCHANGED <<userSaid, completed>>
    /\ UNCHANGED mobileVars

\* line 1134: the user tells the code specialist, which holds control,
\* that its task is complete (once it is) or, at any time, to stop.
UserTells(word) ==
    /\ run = "active"
    /\ control = Code
    /\ caller = "none"
    /\ userSaid = "nothing"
    /\ word \in {"confirmed", "stop"}
    /\ word = "confirmed" => TaskComplete
    /\ userSaid' = word
    /\ UNCHANGED <<run, request, control, caller, proc, launches, actions, delegations,
                   results, halted, errorKind, summaryBy>>
    /\ UNCHANGED <<env, cwd, file, pc, target_folder_path, node_path, agents, root_agent, loads>>
    /\ UNCHANGED completed
    /\ UNCHANGED mobileVars

UserConfirms == UserTells("confirmed")

UserAsksToStop == UserTells("stop")

\* lines 906-912: the user answers "Continue automation?" after a warning,
\* and the mobile specialist goes on with its counters as they are (line 960).
UserContinues ==
    /\ run = "active"
    /\ control = Mobile
    /\ pending = "warned"
    /\ pending' = "none"
    /\ UNCHANGED <<run, request, control, caller, proc, launches, actions, delegations,
                   results, halted, errorKind, summaryBy>>
    /\ UNCHANGED <<env, cwd, file, pc, target_folder_path, node_path, agents, root_agent, loads>>
    /\ UNCHANGED <<userSaid, completed>>
    /\ UNCHANGED <<phase, total_actions, element_attempts, page_source_calls,
                   scroll_attempts, actionsTaken, elementAttemptsMade, elementScrollsMade,
                   stepPageSources>>

\* The mobile specialist goes on inside its execution phase without a tool call.
MobileProceeds ==
    /\ run = "active"
    /\ control = Mobile
    /\ caller = "none"
    /\ MayExecute(phase)
    /\ AutomationMayContinue(Mobile)
    /\ UNCHANGED <<run, request, control, caller, proc, launches, actions, delegations,
                   results, halted, errorKind, summaryBy>>
    /\ UNCHANGED <<env, cwd, file, pc, target_folder_path, node_path, agents, root_agent, loads>>
    /\ UNCHANGED <<userSaid, completed>>

\* lines 527 and 574: the task step completes successfully once the element
\* interaction is asserted; the page source calls are reset, and "all
\* counters" of line 527 are, the total actions among them or, as line 575
\* has it, not before the full task completes.
StepComplete(resetTotal) ==
    /\ pending = "passed"
    /\ MobileProceeds
    /\ pending' = "none"
    /\ total_actions' = IF resetTotal THEN 0 ELSE total_actions
    /\ element_attempts' = 0
    /\ scroll_attempts' = 0
    /\ page_source_calls' = 0
    /\ elementAttemptsMade' = 0
    /\ elementScrollsMade' = 0
    /\ stepPageSources' = 0
    /\ UNCHANGED <<phase, actionsTaken>>

\* lines 526 and 726: when a limit is hit the specialist proceeds to the
\* next task component, and the counters are reset for the new element.
ProceedNext ==
    /\ pending = "none"
    /\ \/ element_attempts = ELEMENT_ATTEMPT_LIMIT
       \/ scroll_attempts = SCROLL_LIMIT
       \/ page_source_calls = PAGE_SOURCE_LIMIT
    /\ MobileProceeds
    /\ element_attempts' = 0
    /\ scroll_attempts' = 0
    /\ page_source_calls' = 0
    /\ elementAttemptsMade' = 0
    /\ elementScrollsMade' = 0
    /\ stepPageSources' = 0
    /\ UNCHANGED <<phase, pending, total_actions, actionsTaken>>

\* The error assertion of the last action is due and can be made: an Appium
\* tool process of the mobile specialist is running to read the page source.
AssertionDue ==
    /\ pending \in {"interact", "scroll"}
    /\ \E b \in BindingsOf(Mobile) : ProcState(b) = "running"

\* lines 265, 281-284 and 374-375: the execution ends, after the assertion
\* of its last action (lines 282, 759, 831 and 868), and the report is
\* generated; lines 528 and 575-576: the full task is complete and ALL
\* counters are reset.
Report ==
    /\ ~AssertionDue
    /\ pending # "warned"
    /\ MobileProceeds
    /\ EndTask

\* lines 1446, 1465-1466 and 1489
WSummarize ==
    /\ FinalSummaryBy(control)
    /\ control = Coordinator => AllPartsComplete
    /\ Respond

AssertionResults == {"pass", "fail", "warning"}

WorkflowStep ==
    \/ \E r \in WorkflowRequests : UserRequest(r)
    \/ \E s \in DOMAIN agents : WDelegate(s)
    \/ \E s \in DOMAIN agents : WReturn(s)
    \/ \E t \in DOMAIN agents : WInvokeAgentTool(t)
    \/ WAgentToolReturn
    \/ \E b \in AllBindings : \E ok \in BOOLEAN : LaunchTool(b, ok)
    \/ \E b \in AllBindings : WCallTool(b)
    \/ \E b \in AllBindings : ToolFail(b)
    \/ \E b \in AllBindings : AnalyzeState(b)
    \/ \E b \in AllBindings : Interact(b)
    \/ \E b \in AllBindings : ScrollToElement(b)
    \/ \E b \in AllBindings : \E result \in AssertionResults : AssertResult(b, result)
    \/ \E b \in AllBindings : DetectCriticalError(b)
    \/ UserIntervention
    \/ UserConfirms
    \/ UserAsksToStop
    \/ UserContinues
    \/ \E resetTotal \in BOOLEAN : StepComplete(resetTotal)
    \/ ProceedNext
    \/ Report
    \/ WSummarize

NextWorkflow == LoadStep \/ WorkflowStep

SpecWorkflow == Init /\ [][NextWorkflow]_vars


----------------------------------------------------------------------------
(* The mobile specialist's task at length: from the state in which the     *)
(* coordinator has transferred a testing request to it (WDelegate(Mobile)  *)
(* on the loaded configuration) to its return.                             *)

\* The agents the module body leaves defined (lines 22-1526).
LoadedAgents(tfp, np) ==
    [n \in {Web, Planner, Mobile, Code, FileOps, Advanced, Coordinator} |->
       CASE n = Web -> web_automation_agent(tfp, np)
         [] n = Planner -> mobile_automation_planner(tfp, np)
         [] n = Mobile -> mobile_automation_agent(tfp, np)
         [] n = Code -> code_management_agent(tfp, np)
         [] n = FileOps -> file_operations_agent(tfp, np)
         [] n = Advanced -> advanced_tools_agent(tfp, np)
         [] n = Coordinator -> coordinator_agent]

InitMobile ==
    /\ env \in RunEnvs
    /\ cwd \in RunCwds
    /\ file \in RunFiles
    /\ pc = "loaded"
    /\ target_folder_path = TargetFolderPath(cwd, file)
    /\ node_path = NODE_PATH
    /\ agents = LoadedAgents(target_folder_path, node_path)
    /\ root_agent = RootAgentName
    /\ loads = {Snapshot}
    /\ run = "active"
    /\ request \in MobileRequests
    /\ control = Mobile
    /\ caller = "none"
    /\ proc = EmptyMap
    /\ launches = EmptyMap
    /\ actions = 0
    /\ delegations = <<Mobile>>
    /\ results = <<>>
    /\ halted = {}
    /\ errorKind = "none"
    /\ summaryBy = "none"
    /\ phase = "planning"
    /\ pending = "none"
    /\ total_actions = 0
    /\ element_attempts = 0
    /\ page_source_calls = 0
    /\ scroll_attempts = 0
    /\ actionsTaken = 0
    /\ elementAttemptsMade = 0
    /\ elementScrollsMade = 0
    /\ stepPageSources = 0
    /\ userSaid = "nothing"
    /\ completed = {}

NextMobile ==
    \/ WInvokeAgentTool(Planner)
    \/ WAgentToolReturn
    \/ \E b \in BindingsOf(Mobile) : \E ok \in BOOLEAN : LaunchTool(b, ok)
    \/ \E b \in BindingsOf(Mobile) : ToolFail(b)
    \/ \E b \in BindingsOf(Mobile) : AnalyzeState(b)
    \/ \E b \in BindingsOf(Mobile) : Interact(b)
    \/ \E b \in BindingsOf(Mobile) : ScrollToElement(b)
    \/ \E b \in BindingsOf(Mobile) : \E result \in AssertionResults : AssertResult(b, result)
    \/ \E b \in BindingsOf(Mobile) : DetectCriticalError(b)
    \/ UserIntervention
    \/ UserContinues
    \/ \E resetTotal \in BOOLEAN : StepComplete(resetTotal)
    \/ ProceedNext
    \/ Report
    \/ WReturn(Mobile)

SpecMobile == InitMobile /\ [][NextMobile]_vars

----------------------------------------------------------------------------
(* Properties.                                                             *)

\* The task domains and the specialist the module names for each; the
\* test-execution specialist is the commented-out definition of lines 1303-1341.
SpecialistOf(d) ==
    CASE d = "web" -> Web
      [] d = "mobile" -> Mobile
      [] d = "code" -> Code
      [] d = "file" -> FileOps
      [] d = "test-execution" -> "test_execution_specialist"
      [] d = "advanced-tools" -> Advanced

SixDomains == {"web", "mobile", "code", "file", "test-execution", "advanced-tools"}

FiveDomains == SixDomains \ {"test-execution"}

\* C1: root_agent is the coordinator automation_coordinator; in a run started
\* from it only the coordinator, its sub-agents and the planner invoked as a
\* tool ever hold control, and every agent object constructed is an LlmAgent:
\* no sequential or parallel grouping agent exists or is entered.
C1_ControlStaysInCoordinatorTree ==
    /\ root_agent \in {"undefined", Coordinator}
    /\ Loaded => root_agent = Coordinator
    /\ control \in {"none", Coordinator, Planner} \cup SubAgentsOf(Coordinator)
    /\ control = Planner => caller \in AgentToolsHolders
    /\ \A a \in DOMAIN agents : agents[a].kind = "LlmAgent"

\* C1 witness: in a run, the planner holds control as a tool of the mobile specialist.
C1_Witness == run = "active" /\ control = Planner /\ caller = Mobile /\ root_agent = Coordinator

\* C2 as stated: each of the six task domains has a specialist that is a
\* delegation target of root_agent.
C2_SixDomainsDelegable ==
    Loaded => \A d \in SixDomains :
                 SpecialistOf(d) \in DOMAIN agents /\ SpecialistOf(d) \in SubAgentsOf(root_agent)

\* C2 amended: each of the five task domains web, mobile, code, file and
\* advanced-tools has a specialist that is a delegation target of root_agent;
\* no test-execution specialist is constructed, and the coordinator has
\* exactly these five delegation targets.
C2_FiveDomainsDelegable ==
    Loaded =>
      /\ \A d \in FiveDomains :
            SpecialistOf(d) \in DOMAIN agents /\ SpecialistOf(d) \in SubAgentsOf(root_agent)
      /\ SpecialistOf("test-execution") \notin DOMAIN agents
      /\ SubAgentsOf(root_agent) = { SpecialistOf(d) : d \in FiveDomains }

\* C2 witness: the coordinator has delegated to the advanced-tools specialist.
C2_Witness == Loaded /\ run = "active" /\ control = Advanced /\ delegations # <<>>

\* C3: every specialist the coordinator can delegate to has, in its tools
\* list, at least one MCPToolset whose connection parameters are a launch
\* command and an argument list.
C3_EverySpecialistWired ==
    Loaded => \A s \in SubAgentsOf(root_agent) :
                 \E b \in BindingsOf(s) :
                    /\ {"command", "args"} \subseteq DOMAIN ParamsOf(b)
                    /\ Len(ParamsOf(b).command) > 0

\* C3 witness: the stdio tool process of the mobile specialist's binding runs.
C3_Witness == Loaded /\ control = Mobile /\ \E b \in BindingsOf(Mobile) : ProcState(b) = "running"

IsNodeScriptBinding(b) ==
    /\ ParamsOf(b).command = NODE_PATH
    /\ Len(ParamsOf(b).args) = 1
    /\ Dirname(ParamsOf(b).args[1]) = target_folder_path

\* C4 as stated: every tool binding launches its server with the command
\* NODE_PATH and an argument list naming a script in the mcp-servers directory.
C4_EveryBindingNodeScript == \A b \in AllBindings : IsNodeScriptBinding(b)

\* C4 amended: every tool binding has a fixed command and argument list; all
\* bindings but the web specialist's launch NODE_PATH with one server script
\* of the mcp-servers directory, and the web specialist's binding launches
\* the command npx with the arguments -y and @playwright/mcp@latest.
C4_NodeScriptExceptWeb ==
    \A b \in AllBindings :
       IF b[1] = Web
       THEN /\ ParamsOf(b).command = <<"npx">>
            /\ ParamsOf(b).args = << <<"-y">>, <<"@playwright", "mcp@latest">> >>
       ELSE IsNodeScriptBinding(b)

\* C4 witness: all bindings are constructed and a node server script is launched.
C4_Witness ==
    /\ Loaded
    /\ Cardinality(AllBindings) > 1
    /\ \E b \in DOMAIN proc : b[1] # Web /\ proc[b] = "running"

BindingsIn(l) ==
    UNION { { <<a, i>> : i \in { j \in 1..Len(l.agents[a].tools) :
                                    l.agents[a].tools[j].kind = "MCPToolset" } } :
            a \in DOMAIN l.agents }

ParamsIn(l, b) == l.agents[b[1]].tools[b[2]].connection_params

\* The last component of each argument: what is left once the directory is dropped.
Basenames(args) == [i \in 1..Len(args) |-> args[i][Len(args[i])]]

\* C5: imports of the module from the same install location under different
\* environments give identical agent records and binding commands and
\* arguments; across install locations only the server directory of the
\* script arguments varies, and the Node command is the hardcoded absolute path.
C5_EnvironmentIndependent ==
    \A l1 \in loads : \A l2 \in loads :
       /\ l1.location = l2.location => (l1.agents = l2.agents /\ l1.root_agent = l2.root_agent)
       /\ l1.root_agent = l2.root_agent
       /\ DOMAIN l1.agents = DOMAIN l2.agents
       /\ BindingsIn(l1) = BindingsIn(l2)
       /\ \A b \in BindingsIn(l1) :
             /\ ParamsIn(l1, b).command = ParamsIn(l2, b).command
             /\ Basenames(ParamsIn(l1, b).args) = Basenames(ParamsIn(l2, b).args)
             /\ b[1] # Web => (ParamsIn(l1, b).command = NODE_PATH /\ IsAbs(ParamsIn(l1, b).command))

\* C5 witness: two finished imports from one install location under different environments.
C5_Witness ==
    \E l1 \in loads : \E l2 \in loads :
       l1.env # l2.env /\ l1.location = l2.location /\ BindingsIn(l1) # {}

\* C6: no tool binding carries a timeout, a retry count or a retry delay, and
\* a tool process is launched at most once: after it failed nothing launches
\* it again.
C6_NoRetryNoTimeout ==
    /\ \A b \in AllBindings : DOMAIN ParamsOf(b) = {"command", "args"}
    /\ \A b \in DOMAIN launches : launches[b] <= 1
    /\ \A b \in DOMAIN proc : proc[b] = "failed" => ~ ENABLED LaunchTool(b, TRUE)

\* C6 witness: a tool process has failed after its one launch.
C6_Witness ==
    \E b \in DOMAIN proc : proc[b] = "failed" /\ launches[b] = 1 /\ run = "active" /\ control = b[1]

\* C7: no error kind and no halted state is ever held: a failed launch or a
\* failed tool call is not turned into an error value, an error state or a
\* recovery step.
C7_NoErrorState == errorKind = "none" /\ halted = {}

\* C7 witness: a run has ended after a tool process of it failed.
C7_Witness == run = "done" /\ Failures > 0

\* C8: no guard blocks a tool call on a count of actions: whenever the agent in
\* control has a running tool process and its task still has calls to make,
\* the call can be issued, whatever the number of actions taken so far.
C8_NoLimitEnforced ==
    \A b \in BindingsOf(control) :
       (run = "active" /\ ProcState(b) = "running" /\ actions < request.work)
          => ENABLED CallTool(b)

\* C8 witness: the mobile specialist has taken a 21st action in one task.
C8_Witness == control = Mobile /\ actions = ACTION_LIMIT + 1

\* C9: for a request that mentions a test tag, test folder or scenario
\* keyword the first delegation is to file_operations_specialist, and the
\* mobile specialist holds control only after file_operations_specialist
\* has returned its results.
C9_DiscoveryFirst ==
    request.scenario =>
      /\ delegations # <<>> => delegations[1] = FileOps
      /\ (control = Mobile \/ caller = Mobile \/ Mobile \in Range(delegations))
            => FileOps \in Range(results)

\* C9 witness: a scenario request whose execution was handed to the mobile specialist.
C9_Witness == request.scenario /\ control = Mobile /\ run = "active"

ReturnedTo(s) == control = Coordinator /\ LastResult = s

\* A step of the turn of the specialist s that holds control: its return,
\* its planner call, the start of one of its tool processes for work that is
\* left, a tool call, or a step of the mobile specialist's execution.  The
\* steps of the user and the failures of tool processes are none of them.
SpecialistStep(s) ==
    /\ control = s
    /\ \/ WReturn(s)
       \/ WInvokeAgentTool(Planner)
       \/ \E b \in BindingsOf(s) : ~TaskComplete /\ LaunchTool(b, TRUE)
       \/ \E b \in BindingsOf(s) : WCallTool(b)
       \/ \E b \in BindingsOf(s) : AnalyzeState(b)
       \/ \E b \in BindingsOf(s) : Interact(b)
       \/ \E b \in BindingsOf(s) : ScrollToElement(b)
       \/ \E b \in BindingsOf(s) : AssertResult(b, "pass")
       \/ \E resetTotal \in BOOLEAN : StepComplete(resetTotal)
       \/ ProceedNext
       \/ Report

\* The specialist s waits for the user: the mobile specialist halted on a
\* critical error (lines 883-904) or asking whether to continue after a
\* warning (lines 906-912), or the code specialist that has no work left it
\* can do and was neither told that its task is complete nor asked to stop
\* (line 1134).
AwaitsUser(s) ==
    \/ s = Mobile /\ Mobile \in halted
    \/ s = Mobile /\ pending = "warned"
    \/ /\ s = Code
       /\ userSaid = "nothing"
       /\ ~(/\ ~TaskComplete
            /\ \E b \in BindingsOf(Code) : ProcState(b) \in {"unlaunched", "running"})

C11_ConcludesOnlyWhenComplete ==
    /\ [](run = "done" =>
            /\ summaryBy = Coordinator
            /\ halted = {}
            /\ Len(results) = Len(delegations)
            /\ (request.parts \cup Range(delegations)) \subseteq Range(results)
            /\ (request.parts \cup Range(delegations)) \subseteq completed)
    /\ [](completed \subseteq Range(results) \ halted)
    /\ [][ \A s \in Range(coordinator_sub_agents) :
             /\ (s \in completed' /\ s \notin completed) =>
                   /\ control = s
                   /\ s \notin halted
                   /\ actions >= request.work
                   /\ control' = Coordinator
                   /\ results' = Append(results, s)
             /\ (control = s /\ control' # s /\ caller' = "none" /\ actions < request.work) =>
                   s \notin completed' ]_vars

\* C11 witness: a request is concluded after the code specialist, which had
\* returned with work left, was given the additional work and completed it.
C11_Witness ==
    /\ run = "done"
    /\ Cardinality({i \in DOMAIN delegations : delegations[i] = Code}) > 1
    /\ Code \in completed

\* The order of the phases of a mobile task (lines 263-265 and 290).
PhaseOrder ==
    { <<"none", "planning">>, <<"planning", "execution">>,
      <<"execution", "reporting">>, <<"reporting", "none">> }

\* C12: in a mobile task no Appium tool is called before the planner tool
\* was called and returned the plan: while the task is in its planning phase
\* no action was taken and no page source was read, the execution phase is
\* entered only by the planner's answer to the mobile specialist, and the
\* phases follow one another as planning, execution, reporting.
C12_PlanningBeforeExecution ==
    /\ [](phase \in {"none", "planning"} =>
            actionsTaken = 0 /\ stepPageSources = 0 /\ total_actions = 0 /\ page_source_calls = 0)
    /\ [][ /\ phase' # phase => <<phase, phase'>> \in PhaseOrder
           /\ (phase' = "execution" /\ phase # "execution") =>
                  (control = Planner /\ caller = Mobile /\ control' = Mobile)
           /\ (actionsTaken' # actionsTaken \/ stepPageSources' > stepPageSources) =>
                  phase = "execution" ]_vars

\* C12 witness: after the planner's call, the execution has taken an action
\* and read the page source.
C12_Witness ==
    /\ phase = "execution"
    /\ actions > actionsTaken
    /\ actionsTaken > 0
    /\ stepPageSources > 0

\* C13: once a critical error is detected the mobile specialist is halted
\* with the error kind critical, and until the user intervenes it takes no
\* action and reads no page source, and every counter keeps its value.
C13_HaltsOnCriticalError ==
    /\ [](Mobile \in halted => errorKind = "critical" /\ control = Mobile /\ phase = "execution")
    /\ [][ (Mobile \in halted) =>
             ( /\ actions' = actions
               /\ actionsTaken' = actionsTaken
               /\ stepPageSources' = stepPageSources
               /\ elementAttemptsMade' = elementAttemptsMade
               /\ elementScrollsMade' = elementScrollsMade
               /\ phase' = phase
               /\ pending' = pending
               /\ counters' = counters
               /\ (Mobile \notin halted' => errorKind' = "none") ) ]_vars

\* C13 witness: the automation is halted on a critical error found by the
\* assertion after an action.
C13_Witness == Mobile \in halted /\ actionsTaken > 0 /\ errorKind = "critical"

\* C14 as stated: the total-actions counter never exceeds 20, and the number
\* of actions taken since the task started is at most 20.
C14_TotalActionsBounded ==
    control = Mobile => (total_actions <= ACTION_LIMIT /\ actionsTaken <= ACTION_LIMIT)

\* C15 as stated: the page-source counter never exceeds 3, and at most 3
\* get_page_source calls are made within one task step.
C15_PageSourceCallsBounded ==
    control = Mobile =>
       (page_source_calls <= PAGE_SOURCE_LIMIT /\ stepPageSources <= PAGE_SOURCE_LIMIT)

\* C16: an action is taken only when no earlier action awaits its error
\* assertion, every action leaves its assertion due, and an assertion that
\* is due and can be made is discharged only by a get_page_source call, also
\* at the end of the execution: no two actions occur without an error
\* assertion between them, and no action goes unasserted into the report
\* while the Appium tool process runs.
C16_AssertionBetweenActions ==
    [][ /\ actionsTaken' = actionsTaken + 1 =>
              (pending = "none" /\ pending' \in {"interact", "scroll"})
        /\ (AssertionDue /\ pending' # pending) =>
              (stepPageSources' = stepPageSources + 1 /\ phase' = phase) ]_vars

\* C16 witness: two actions of one task step, each followed by its assertion.
C16_Witness ==
    /\ phase = "execution"
    /\ pending = "none"
    /\ elementAttemptsMade + elementScrollsMade >= 2
    /\ stepPageSources >= 2

\* C17 as stated: the per-element attempt and scroll counters never exceed 5
\* and 3, and for one target element at most 5 interaction attempts and at
\* most 3 scroll attempts are made.
C17_AttemptsBounded ==
    control = Mobile =>
       /\ element_attempts <= ELEMENT_ATTEMPT_LIMIT
       /\ scroll_attempts <= SCROLL_LIMIT
       /\ elementAttemptsMade <= ELEMENT_ATTEMPT_LIMIT
       /\ elementScrollsMade <= SCROLL_LIMIT

====
